---- MODULE Spec2Model ----
(***************************************************************************)
(* Model of util/_metadata/recording.py: the cmd_call_cmd hook wrapper     *)
(* that records provenance of one command execution, with the environment  *)
(* channels it reads and writes, the metadata store it appends to and the  *)
(* call stack of nested tracked commands.                                  *)
(***************************************************************************)
EXTENDS Integers, Sequences, FiniteSets, TLC

VARIABLES
    stack,            \* in-flight cmd_call_cmd invocations, outermost first
    steps_running,    \* os.environ['VIRAL_NGS_METADATA_STEPS_RUNNING'] as a sequence of step ids
    run_id_env,       \* os.environ.get('VIRAL_NGS_METADATA_RUN_ID'): None or a run id
    tracking,         \* what metadata_db.is_metadata_tracking_enabled() answers in this process
    cwd_len,          \* len(os.path.basename(os.getcwd()))
    user_len,         \* len(getpass.getuser())
    disk,             \* file name -> content (0: no such file)
    store,            \* records persisted by metadata_db.store_step_record, oldest first
    save_to,          \* VIRAL_NGS_METADATA_SAVE_STEP_ID_TO: unset, or a path that can or cannot be written
    uuids,            \* number of uuid.uuid4() values drawn so far
    now,              \* time.time(), in seconds
    calls,            \* number of cmd_call_cmd invocations started so far
    init_steps        \* value of steps_running when the process started

vars == <<stack, steps_running, run_id_env, save_to, tracking, cwd_len, user_len, disk,
          store, uuids, now, calls, init_steps>>

\* ---------------------------------------------------------------- bounds
MaxCalls == 3
MaxDepth == 3
MaxTime == 1
MaxRecords == 2

\* ---------------------------------------------------------------- constants
VIRAL_NGS_METADATA_FORMAT == "1.0.0"
RunIdMaxLen == 210
TimeLen == 12
UuidLen == 36
SepLen == 2
UserLen == 4
CwdLen == 8
Files == {"a.bam", "b.bam"}

\* ---------------------------------------------------------------- strings
\* A string is a sequence of segments: len characters of the text of kind s
\* that n and name identify; safe says they are file-name characters. Two
\* strings are equal when they have the same segments.
Seg(s, n, name, len) == [s |-> s, n |-> n, name |-> name, len |-> len, safe |-> FALSE]

RECURSIVE StrLen(_)
StrLen(str) == IF str = <<>> THEN 0 ELSE Head(str).len + StrLen(Tail(str))

RECURSIVE Truncate(_, _)
Truncate(str, n) ==
    IF str = <<>> \/ n <= 0 THEN <<>>
    ELSE IF Head(str).len <= n
         THEN <<Head(str)>> \o Truncate(Tail(str), n - Head(str).len)
         ELSE <<[Head(str) EXCEPT !.len = n]>>

RECURSIVE Join(_)
Join(parts) ==
    IF parts = <<>> THEN <<>>
    ELSE IF Len(parts) = 1 THEN <<Head(parts)>>
    ELSE <<Head(parts), Seg("sep", 0, "__", SepLen)>> \o Join(Tail(parts))

string_to_file_name(str) == [i \in 1..Len(str) |-> [str[i] EXCEPT !.safe = TRUE]]

\* the joined text returned whole, without the [:210]
create_run_id_NoTruncate(t, userl, cwdl, u) ==
    string_to_file_name(Join(<<Seg("time", t, "", TimeLen),
                               Seg("user", 0, "user", userl),
                               Seg("cwd", 0, "cwd", cwdl),
                               Seg("uuid", u, "", UuidLen)>>))

\* lines 47-50
create_run_id(t, userl, cwdl, u) ==
    Truncate(string_to_file_name(Join(<<Seg("time", t, "", TimeLen),
                                        Seg("user", 0, "user", userl),
                                        Seg("cwd", 0, "cwd", cwdl),
                                        Seg("uuid", u, "", UuidLen)>>)),
             RunIdMaxLen)

\* ---------------------------------------------------------------- values
NoneV == [tag |-> "None"]
Plain(v) == [tag |-> "plain", val |-> v]
FileArg(val, mode) == [tag |-> "FileArg", val |-> val, mode |-> mode]
ListV(items) == [tag |-> "list", items |-> items]
TupleV(items) == [tag |-> "tuple", items |-> items]
Mapping(f) == [tag |-> "mapping", items |-> f]
EmptyDict == [k \in {} |-> ""]

IsFileArg(x) == x.tag = "FileArg"
IsSeqV(x) == x.tag \in {"list", "tuple"}

\* the pairs of f kept where g has the same key
Update_KeepFirst(f, g) ==
    [k \in (DOMAIN f) \cup (DOMAIN g) |-> IF k \in DOMAIN f THEN f[k] ELSE g[k]]

\* dict.update: the pairs of g replace those of f
Update(f, g) == [k \in (DOMAIN f) \cup (DOMAIN g) |-> IF k \in DOMAIN g THEN g[k] ELSE f[k]]

\* dict(pairs) of a list of [key, value] lists: a later pair replaces an earlier one
RECURSIVE DictOfPairs(_)
DictOfPairs(pairs) ==
    IF pairs = <<>> THEN EmptyDict
    ELSE LET p == pairs[Len(pairs)]
             rest == DictOfPairs(SubSeq(pairs, 1, Len(pairs) - 1))
         IN  Update(rest, [k \in {p.items[1].val} |-> p.items[2].val])

\* ---------------------------------------------------------------- commands
\* What util.cmd hands to the hook: the function implementing the command
\* and the argparse.Namespace of its arguments (FileArg values made by
\* cmd_handle_file_arg for the InFile/OutFile arguments).
cmd_handle_file_arg(val, mode) == FileArg(val, mode)

Md(k, v) == ListV(<<Plain(k), Plain(v)>>)

Commands == {
    [module |-> "read_utils", func |-> "main_align",
     args |-> [command |-> Plain("align"),
               in_bam |-> cmd_handle_file_arg("a.bam", "IN"),
               out_bam |-> cmd_handle_file_arg("b.bam", "OUT"),
               metadata |-> ListV(<<Md("project", "flag1"), Md("project", "flag2")>>),
               func_main |-> Plain("main_align")]],
    [module |-> "read_utils", func |-> "main_merge",
     args |-> [in_bams |-> ListV(<<cmd_handle_file_arg("a.bam", "IN"),
                                   TupleV(<<cmd_handle_file_arg("b.bam", "IN"), Plain("x")>>)>>),
               threads |-> Plain("4"),
               metadata |-> NoneV]]
}

\* os.environ entries other than the channels: [prefix, rest] is the variable
\* named prefix + rest.
Environ == {
    [prefix |-> "VIRAL_NGS_METADATA_VALUE_", rest |-> "project", value |-> "env1"],
    [prefix |-> "VIRAL_NGS_METADATA_VALUE_", rest |-> "sample", value |-> "env2"],
    [prefix |-> "", rest |-> "HOME", value |-> "/home/user"]
}

\* What the wrapped command can do: return None or a mapping carrying
\* '__metadata__', or raise.
CmdReturns == {NoneV,
               Mapping([k \in {"__metadata__"} |-> [j \in {"reads"} |-> "10"]])}
Exc(type, msg) == [tag |-> "exception", type |-> type, msg |-> msg]
Exceptions == {Exc("ValueError", "bad read group")}
BaseExceptions == {Exc("KeyboardInterrupt", ""), Exc("SystemExit", "1")}
CmdOutcomes == [kind : {"return"}, val : CmdReturns]
               \cup [kind : {"raise"}, val : Exceptions \cup BaseExceptions]

\* pluggy's _Result for the inner call: the list of non-None results, or the exception
Result(o) ==
    IF o.kind = "raise" THEN [results |-> <<>>, excinfo |-> o.val]
    ELSE [results |-> IF o.val = NoneV THEN <<>> ELSE <<o.val>>, excinfo |-> NoneV]

\* ---------------------------------------------------------------- argument handling
Truthy(x) ==
    CASE x.tag = "None" -> FALSE
      [] x.tag = "plain" -> x.val # ""
      [] x.tag \in {"list", "tuple"} -> x.items # <<>>
      [] x.tag = "mapping" -> DOMAIN x.items # {}
      [] OTHER -> TRUE

\* lists and tuples returned as they are, not walked
_replace_file_args_Shallow(val) == IF IsFileArg(val) THEN Plain(val.val) ELSE val

RECURSIVE _replace_file_args(_)
_replace_file_args(val) ==
    IF IsFileArg(val) THEN Plain(val.val)
    ELSE IF IsSeqV(val)
         THEN ListV([i \in 1..Len(val.items) |-> _replace_file_args(val.items[i])])
         ELSE val

replace_file_args(args) == [arg \in DOMAIN args |-> _replace_file_args(args[arg])]

\* dict.pop(key, default) leaves the other entries alone
Pop(d, key) == [k \in (DOMAIN d) \ {key} |-> d[k]]
Get(d, key, default) == IF key \in DOMAIN d THEN d[key] ELSE default

\* The FileArg values within a value, at any depth
RECURSIVE FileArgsIn(_)
FileArgsIn(val) ==
    IF IsFileArg(val) THEN {val}
    ELSE IF IsSeqV(val)
         THEN UNION {FileArgsIn(val.items[i]) : i \in 1..Len(val.items)}
         ELSE {}

FileArgsOf(args) == UNION {FileArgsIn(args[a]) : a \in DOMAIN args}

\* ---------------------------------------------------------------- gathering
gather_version_info(step_id) ==
    [viral_ngs_version |-> "v1", viral_ngs_path |-> "/opt/viral-ngs", code_hash |-> "abc"]

gather_run_env(cwdl) ==
    [metadata_dir |-> "", user |-> "user", cwd |-> cwdl, conda_env |-> "",
     got_detailed_env |-> FALSE]

\* the exception text formatted even when there is none
gather_run_info_StrOfNone(beg_time, end_time, cmd_exception_str) ==
    [beg_time |-> beg_time, end_time |-> end_time, duration |-> end_time - beg_time,
     exception |-> IF cmd_exception_str = NoneV THEN Plain("None") ELSE cmd_exception_str]

\* lines 125-128
gather_run_info(beg_time, end_time, cmd_exception_str) ==
    [beg_time |-> beg_time, end_time |-> end_time, duration |-> end_time - beg_time,
     exception |-> cmd_exception_str]

\* returns the two metadata dicts and args_dict after the pop of 'metadata'
gather_user_metadata(args_dict, cmd_result) ==
    LET from_env == [k \in {e.rest : e \in {x \in Environ : x.prefix = "VIRAL_NGS_METADATA_VALUE_"}}
                        |-> (CHOOSE e \in Environ :
                                e.prefix = "VIRAL_NGS_METADATA_VALUE_" /\ e.rest = k).value]
        popped == Get(args_dict, "metadata", NoneV)
        from_flag == IF Truthy(popped) THEN DictOfPairs(popped.items) ELSE EmptyDict
        from_return == IF cmd_result.tag = "mapping"
                       THEN Get(cmd_result.items, "__metadata__", EmptyDict)
                       ELSE EmptyDict
    IN  [metadata_from_cmd_line |-> Update(from_env, from_flag),
         metadata_from_cmd_return |-> from_return,
         args_dict |-> Pop(args_dict, "metadata")]

\* ---------------------------------------------------------------- hashing and the store
Digest(content) == content * 31 + 7

\* FileArg.gather_file_info: an IN file, or an OUT file when out_files_exist,
\* is looked up and hashed; any other is recorded as absent
gather_file_info(x, out_files_exist, d) ==
    IF (x.mode = "IN" \/ out_files_exist) /\ d[x.val] # 0
    THEN [tag |-> "FileInfo", fname |-> x.val, mode |-> x.mode, exists |-> TRUE,
          hash |-> Digest(d[x.val])]
    ELSE [tag |-> "FileInfo", fname |-> x.val, mode |-> x.mode, exists |-> FALSE, hash |-> 0]

\* output files taken to exist whatever the command's outcome
OutFilesExist_Always(step_data) == TRUE

\* line 152: out_files_exist
OutFilesExist(step_data) == ~ Truthy(step_data.step.run_info.exception)

write_obj(x, step_data, d) ==
    IF ~ IsFileArg(x) THEN [tag |-> "str", of |-> x]
    ELSE gather_file_info(x, OutFilesExist(step_data), d)

\* json serialization of a value, write_obj called for what json cannot write
RECURSIVE Dump(_, _, _)
Dump(val, step_data, d) ==
    IF IsSeqV(val)
    THEN ListV([i \in 1..Len(val.items) |-> Dump(val.items[i], step_data, d)])
    ELSE IF IsFileArg(val) THEN write_obj(val, step_data, d)
    ELSE val

\* metadata_db.store_step_record: the record as written
store_step_record(step_data, d) ==
    [step_data EXCEPT !.step.args = [a \in DOMAIN @ |-> Dump(@[a], step_data, d)]]

\* the gather_file_info calls made while the record is written
HashCalls(step_data) ==
    {[fname |-> x.val, mode |-> x.mode, out_files_exist |-> OutFilesExist(step_data)] :
        x \in FileArgsOf(step_data.step.args)}

\* the values of an argument in the order json walks them
RECURSIVE Flat(_)
Flat(val) ==
    IF IsSeqV(val) /\ val.items # <<>>
    THEN Flat(Head(val.items)) \o Flat([val EXCEPT !.items = Tail(@)])
    ELSE IF IsSeqV(val) THEN <<>>
    ELSE <<val>>

NumFileArgs(args) ==
    Cardinality(UNION {{<<a, i>> : i \in {j \in 1..Len(Flat(args[a])) :
                                              IsFileArg(Flat(args[a])[j])}} :
                       a \in DOMAIN args})

\* every file argument hashed a second time
HashCount_Twice(step_data) == 2 * NumFileArgs(step_data.step.args)

\* lines 148-154: write_obj is called once for each FileArg json meets
HashCount(step_data) == NumFileArgs(step_data.step.args)

record_step_to_db(step_data, d) == store_step_record(step_data, d)

\* ---------------------------------------------------------------- the hook wrapper
FailPoints == {"none", "is_metadata_tracking_enabled", "gather_user_metadata",
               "gather_version_info", "gather_run_env", "gather_file_info",
               "store_step_record"}
SaveStepIdTo == {"unset", "writable", "unwritable"}

JoinStr(a, b) == a \o <<Seg("sep", 0, "__", SepLen)>> \o b

StepId(t, userl, cwdl, u, cmd_module, cmd_name) ==
    JoinStr(JoinStr(create_run_id(t, userl, cwdl, u), <<Seg("module", 0, cmd_module, 10)>>),
            <<Seg("name", 0, cmd_name, 10)>>)

Top == stack[Len(stack)]
SetTop(f) == [stack EXCEPT ![Len(stack)] = f]

\* util.misc.tmp_set_env(var, val, append, sep): on entry the value read is
\* yielded and val is appended to it (or replaces it); on exit the value
\* read is put back
tmp_set_env_enter(env, val, append) ==
    [yielded |-> env, env |-> IF append THEN Append(env, val) ELSE <<val>>]
tmp_set_env_exit(saved) == saved

\* errors_as_warnings: an exception raised in its block is logged as a
\* warning and goes no further
errors_as_warnings(f, error) ==
    IF error = NoneV THEN f ELSE [f EXCEPT !.warnings = @ + 1]

\* the step id replaces the channel's value instead of being appended to it
steps_running_scope_NoAppend(env, step_id) == tmp_set_env_enter(env, step_id, FALSE)

\* line 239: the scope in which the step id is on the steps-running channel
steps_running_scope(env, step_id) == tmp_set_env_enter(env, step_id, TRUE)

\* the channel is put back only when nothing is being raised
LeaveScope_SkipOnRaise(f, env) ==
    IF f.raised # NoneV THEN env ELSE tmp_set_env_exit(f.enclosing_steps)

\* line 239: the with statement leaves the scope whether its block ended or raised
LeaveScope(f, env) == tmp_set_env_exit(f.enclosing_steps)

\* the dict of the namespace itself, which replace_file_args then rewrites
vars_NoCopy(args) == replace_file_args(args)

\* line 216: vars(args).copy(), taken before the namespace is normalized
vars_copy(args) == args

\* the channel's value ignored
environ_get_Default(env, default) == default

\* line 230: os.environ.get(name, default) for the run-id channel
environ_get(env, default) == IF env # <<>> THEN env ELSE default

IOError == Exc("IOError", "dump_file")

\* the write made outside errors_as_warnings: its failure is raised
save_step_id_NoCatch(f, save, step_id) ==
    IF save = "unset" THEN f
    ELSE IF save = "writable" THEN [f EXCEPT !.saved_step_id = step_id]
    ELSE [f EXCEPT !.raised = IOError]

\* lines 233-235: the step id written to the file named by
\* VIRAL_NGS_METADATA_SAVE_STEP_ID_TO, under errors_as_warnings
save_step_id(f, save, step_id) ==
    IF save = "unset" THEN f
    ELSE IF save = "writable" THEN [f EXCEPT !.saved_step_id = step_id]
    ELSE errors_as_warnings(f, IOError)

\* lines 216-239: up to the yield that runs the wrapped command. An
\* exception raised before the yield ends the wrapper there, the command
\* not invoked.
Enter(cmd) ==
    /\ calls < MaxCalls
    /\ Len(stack) < MaxDepth
    /\ Len(store) < MaxRecords
    /\ stack # <<>> => Top.pc = "executing"
    /\ LET args_dict == vars_copy(cmd.args)
           cmd_module == cmd.module
           cmd_name == Get(args_dict, "command", Plain(cmd.func)).val
           beg_time == now
           run_id == environ_get(run_id_env,
                                 create_run_id(beg_time, user_len, cwd_len, uuids + 1))
           step_id == StepId(beg_time, user_len, cwd_len, uuids + 2, cmd_module, cmd_name)
           start == [pc |-> "start",
                     step_id |-> step_id, run_id |-> run_id,
                     cmd_module |-> cmd_module, cmd_name |-> cmd_name,
                     beg_time |-> beg_time,
                     given |-> cmd.args,
                     args_dict |-> args_dict,
                     args |-> cmd.args,
                     invoked |-> 0,
                     saved_step_id |-> <<>>,
                     warnings |-> 0,
                     enclosing_steps |-> <<>>,
                     entry |-> [steps_running |-> steps_running, run_id_env |-> run_id_env,
                                store_len |-> Len(store)],
                     cmd_outcome |-> NoneV, outcome |-> NoneV,
                     cmd_result |-> NoneV, cmd_exception |-> NoneV,
                     cmd_exception_str |-> NoneV,
                     raised |-> NoneV,
                     asked |-> FALSE, failed |-> "none", store_calls |-> 0,
                     gathered |-> {}, hashed |-> {}, hash_count |-> 0]
           saved == save_step_id(start, save_to, step_id)
           guard == steps_running_scope(steps_running, step_id)
       IN  IF saved.raised # NoneV
           THEN /\ stack' = Append(stack, [saved EXCEPT !.pc = "done"])
                /\ steps_running' = steps_running
           ELSE /\ stack' = Append(stack, [saved EXCEPT !.pc = "executing",
                                                        !.args = replace_file_args(cmd.args),
                                                        !.enclosing_steps = guard.yielded,
                                                        !.invoked = 1])
                /\ steps_running' = guard.env
    /\ uuids' = uuids + 2
    /\ calls' = calls + 1
    /\ UNCHANGED <<run_id_env, save_to, tracking, cwd_len, user_len, disk, store, now,
                   init_steps>>

\* every exception of the command raised at once, as KeyboardInterrupt is
unpack_outcome_RaiseAll(f) ==
    LET exc == f.outcome.excinfo
    IN  IF exc # NoneV
        THEN [f EXCEPT !.pc = "exiting", !.raised = exc]
        ELSE [f EXCEPT !.pc = "body",
                       !.cmd_result = IF f.outcome.results # <<>>
                                      THEN f.outcome.results[1]
                                      ELSE ListV(<<>>)]

\* unpack_outcome, lines 187-197: up to its yield
unpack_outcome(f) ==
    LET exc == f.outcome.excinfo
    IN  IF exc \in BaseExceptions
        THEN [f EXCEPT !.pc = "exiting", !.raised = exc]
        ELSE IF exc # NoneV
        THEN [f EXCEPT !.pc = "body", !.cmd_exception = exc,
                       !.cmd_exception_str = [tag |-> "traceback", of |-> exc]]
        ELSE [f EXCEPT !.pc = "body",
                       !.cmd_result = IF f.outcome.results # <<>>
                                      THEN f.outcome.results[1]
                                      ELSE ListV(<<>>)]

\* the block of line 239 left as soon as the command has ended
in_steps_running_scope_Left(f, env) == tmp_set_env_exit(f.enclosing_steps)

\* lines 239-241: the outcome is unpacked inside the with block of line 239,
\* the channel as it was during the command
in_steps_running_scope(f, env) == env

\* the wrapped command ends, a second later: it returns or raises, having
\* written its output files or not; the wrapper resumes at line 240 with the
\* outcome and unpacks it
CmdFinish(o, wrote) ==
    /\ stack # <<>>
    /\ Top.pc = "executing"
    /\ stack' = SetTop(unpack_outcome([Top EXCEPT !.cmd_outcome = o, !.outcome = Result(o)]))
    /\ steps_running' = in_steps_running_scope(Top, steps_running)
    /\ disk' = [f \in Files |->
                  IF wrote /\ \E x \in FileArgsOf(Top.args_dict) : x.mode = "OUT" /\ x.val = f
                  THEN 1 ELSE disk[f]]
    /\ now' = IF now < MaxTime THEN now + 1 ELSE now
    /\ UNCHANGED <<run_id_env, save_to, tracking, cwd_len, user_len, store, uuids,
                   calls, init_steps>>

\* the decision without the test of enclosing_steps
ShouldRecord_IgnoreNesting(enabled, enclosing_steps) == enabled

\* the decision without the test of is_metadata_tracking_enabled()
ShouldRecord_IgnoreTracking(enabled, enclosing_steps) == enclosing_steps = <<>>

\* line 243: the recording decision
ShouldRecord(enabled, enclosing_steps) == enabled /\ enclosing_steps = <<>>

\* lines 245-262: the step record, assembled from what was gathered
StepData(f, end_time) ==
    LET md == gather_user_metadata(f.args_dict, f.cmd_result)
        args_dict == Pop(md.args_dict, "func_main")
    IN  [__viral_ngs_metadata__ |-> TRUE, format |-> VIRAL_NGS_METADATA_FORMAT,
         step |-> [step_id |-> f.step_id, run_id |-> f.run_id,
                   cmd_module |-> f.cmd_module, cmd_name |-> f.cmd_name,
                   version_info |-> gather_version_info(f.step_id),
                   run_env |-> gather_run_env(cwd_len),
                   run_info |-> gather_run_info(f.beg_time, end_time, f.cmd_exception_str),
                   args |-> args_dict,
                   metadata_from_cmd_line |-> md.metadata_from_cmd_line,
                   metadata_from_cmd_return |-> md.metadata_from_cmd_return,
                   enclosing_steps |-> f.enclosing_steps]]

RecordingError(fail) == Exc("RecordingError", fail)

\* lines 243-264: fail names the call that raises, if it is reached. The
\* result is the frame and the store afterwards, and the exception raised.
RecordingAttempt(f, fail) ==
    LET step_data == StepData(f, now)
        ok(g, st) == [frame |-> g, store |-> st, error |-> NoneV]
        raise(g) == [frame |-> [g EXCEPT !.failed = fail], store |-> store,
                     error |-> RecordingError(fail)]
        asked == [f EXCEPT !.asked = TRUE]
        g1 == [asked EXCEPT !.gathered = {"gather_user_metadata"}]
        g2 == [g1 EXCEPT !.gathered = @ \cup {"gather_version_info"}]
        g3 == [g2 EXCEPT !.gathered = @ \cup {"gather_run_env"}]
        g4 == [g3 EXCEPT !.gathered = @ \cup {"gather_run_info"}]
    IN  IF fail = "is_metadata_tracking_enabled" THEN raise(asked)
        ELSE IF ~ ShouldRecord(tracking, f.enclosing_steps) THEN ok(asked, store)
        ELSE IF fail = "gather_user_metadata" THEN raise(g1)
        ELSE IF fail = "gather_version_info" THEN raise(g2)
        ELSE IF fail = "gather_run_env" THEN raise(g3)
        ELSE LET called == [g4 EXCEPT !.store_calls = @ + 1]
                 hashing == [called EXCEPT !.hashed = HashCalls(step_data),
                                           !.hash_count = HashCount(step_data)]
                 failing == [called EXCEPT !.hashed = HashCalls(step_data),
                                           !.hash_count = 1]
             IN  IF fail = "store_step_record" THEN raise(called)
                 ELSE IF fail = "gather_file_info" /\ FileArgsOf(step_data.step.args) # {}
                 THEN raise(failing)
                 ELSE ok(hashing, Append(store, record_step_to_db(step_data, disk)))

\* the body run without errors_as_warnings: what it raises goes through
\* unpack_outcome, which does not catch it
RecordingBody_NoCatch(f, fail) ==
    LET a == RecordingAttempt(f, fail)
    IN  [frame |-> IF a.error = NoneV THEN [a.frame EXCEPT !.pc = "unpacked"]
                   ELSE [a.frame EXCEPT !.pc = "exiting", !.raised = a.error],
         store |-> a.store]

\* lines 241-264: the body, run under errors_as_warnings inside unpack_outcome
RecordingBody(f, fail) ==
    LET a == RecordingAttempt(f, fail)
    IN  [frame |-> [errors_as_warnings(a.frame, a.error) EXCEPT !.pc = "unpacked"],
         store |-> a.store]

RecordStep(fail) ==
    /\ stack # <<>>
    /\ Top.pc = "body"
    /\ LET r == RecordingBody(Top, fail)
       IN  /\ stack' = SetTop(r.frame)
           /\ store' = r.store
    /\ UNCHANGED <<steps_running, run_id_env, save_to, tracking, cwd_len, user_len, disk, uuids, now,
                   calls, init_steps>>

\* the captured exception is dropped after the body
unpack_outcome_exit_Swallow(f) == [f EXCEPT !.pc = "exiting"]

\* unpack_outcome, lines 199-200: after the body
unpack_outcome_exit(f) ==
    IF Truthy(f.cmd_exception) THEN [f EXCEPT !.pc = "exiting", !.raised = f.cmd_exception]
    ELSE [f EXCEPT !.pc = "exiting"]

\* the exception raised out of unpack_outcome, if any, leaves the with block
\* of line 239, whose exit puts the channel back: the wrapper is done
Exit ==
    /\ stack # <<>>
    /\ Top.pc \in {"unpacked", "exiting"}
    /\ steps_running' = LeaveScope(Top, steps_running)
    /\ stack' = SetTop([(IF Top.pc = "unpacked" THEN unpack_outcome_exit(Top) ELSE Top)
                           EXCEPT !.pc = "done"])
    /\ UNCHANGED <<run_id_env, save_to, tracking, cwd_len, user_len, disk, store, uuids, now, calls,
                   init_steps>>

\* What the caller of the hook gets: the exception the wrapper raised, or
\* else the outcome of the inner call, which the wrapper does not replace
Surfaced(f) ==
    IF f.raised # NoneV THEN [kind |-> "raise", val |-> f.raised]
    ELSE IF f.outcome.excinfo # NoneV THEN [kind |-> "raise", val |-> f.outcome.excinfo]
    ELSE [kind |-> "return",
          val |-> IF f.outcome.results = <<>> THEN NoneV ELSE f.outcome.results[1]]

\* the caller of the hook takes the outcome
Return ==
    /\ stack # <<>>
    /\ Top.pc = "done"
    /\ stack' = SubSeq(stack, 1, Len(stack) - 1)
    /\ UNCHANGED <<steps_running, run_id_env, save_to, tracking, cwd_len, user_len, disk, store,
                   uuids, now, calls, init_steps>>

\* set_run_id, lines 52-54, called by the driver of a workflow before its steps
set_run_id ==
    /\ stack = <<>>
    /\ calls = 0
    /\ run_id_env = <<>>
    /\ run_id_env' = create_run_id(now, user_len, cwd_len, uuids + 1)
    /\ uuids' = uuids + 1
    /\ UNCHANGED <<stack, steps_running, save_to, tracking, cwd_len, user_len, disk, store,
                   now, calls, init_steps>>

ParentStep == <<Seg("parent", 0, "workflow", 10)>>

Init ==
    /\ stack = <<>>
    /\ steps_running \in {<<>>, <<ParentStep>>}
    /\ init_steps = steps_running
    /\ run_id_env = <<>>
    /\ save_to \in SaveStepIdTo
    /\ tracking \in BOOLEAN
    /\ cwd_len = CwdLen
    /\ user_len = UserLen
    /\ disk = [f \in Files |-> IF f = "a.bam" THEN 1 ELSE 0]
    /\ store = <<>>
    /\ uuids = 0
    /\ now = 0
    /\ calls = 0

Next ==
    \/ \E cmd \in Commands : Enter(cmd)
    \/ \E o \in CmdOutcomes, wrote \in BOOLEAN : CmdFinish(o, wrote)
    \/ \E fail \in FailPoints : RecordStep(fail)
    \/ Exit
    \/ Return
    \/ set_run_id

Spec == Init /\ [][Next]_vars

\* create_run_id on its own: a driver in a working directory and under a
\* user name of any length up to the bounds sets the run id of its workflow
MaxUserLen == 32
MaxNameLen == 255

InitRunId ==
    /\ stack = <<>>
    /\ steps_running = <<>>
    /\ init_steps = <<>>
    /\ run_id_env = <<>>
    /\ save_to = "unset"
    /\ tracking = TRUE
    /\ cwd_len \in 0..MaxNameLen
    /\ user_len \in 0..MaxUserLen
    /\ disk = [f \in Files |-> 0]
    /\ store = <<>>
    /\ uuids = 0
    /\ now \in 0..MaxTime
    /\ calls = 0

NextRunId == set_run_id

SpecRunId == InitRunId /\ [][NextRunId]_vars

\* the wrapper run in a working directory whose base name is long
LongCwdLen == 200

InitLongCwd ==
    /\ stack = <<>>
    /\ steps_running = <<>>
    /\ init_steps = <<>>
    /\ run_id_env = <<>>
    /\ save_to = "unset"
    /\ tracking = TRUE
    /\ cwd_len = LongCwdLen
    /\ user_len = UserLen
    /\ disk = [f \in Files |-> IF f = "a.bam" THEN 1 ELSE 0]
    /\ store = <<>>
    /\ uuids = 0
    /\ now = 0
    /\ calls = 0

SpecLongCwd == InitLongCwd /\ [][Next]_vars

\* ================================================================ claims
Frames == {stack[i] : i \in 1..Len(stack)}
Nested(f) == f.enclosing_steps # <<>>
Raised(f) == f.cmd_outcome.kind = "raise"
Returned(f) == f.cmd_outcome.kind = "return"
Finished(f) == f.pc = "done"
RecordingFailed(f) == f.failed # "none"

\* C1: a step whose enclosing_steps was non-empty when it entered the scope
\* of line 239 never has store_step_record called and no record is added to
\* the store while it is in flight, at any depth of nesting and with tracking
\* enabled or not; the nested step's command is run all the same.
C1_NestedNeverStored ==
    \A f \in Frames :
        Nested(f) =>
            /\ f.store_calls = 0
            /\ Len(store) = f.entry.store_len
            /\ Finished(f) => f.cmd_outcome # NoneV

\* three nested tracked steps, tracking enabled: the innermost has run its
\* command, asked for the decision and is done
C1_Witness ==
    /\ tracking
    /\ init_steps = <<>>
    /\ Len(stack) = 3
    /\ Finished(Top) /\ Top.asked /\ Returned(Top) /\ ~ RecordingFailed(Top)
    /\ Len(Top.enclosing_steps) = 2
    /\ store = <<>>

\* C2: when the wrapped command raises, the wrapper ends by raising that
\* same exception, with tracking enabled or not, nested or outermost, and
\* whichever call of the recording raises.
C2_SameExceptionReraised ==
    \A f \in Frames :
        (Finished(f) /\ Raised(f)) => f.raised = f.cmd_outcome.val

\* an outermost step with tracking enabled whose command raised and whose
\* store_step_record raised as well: the command's exception is the one raised
C2_Witness ==
    /\ stack # <<>> /\ Finished(Top) /\ Raised(Top)
    /\ tracking /\ ~ Nested(Top)
    /\ Top.failed = "store_step_record"
    /\ Top.warnings > 0
    /\ Top.raised \in Exceptions

\* C3: when the wrapped command returns and the recording fails, at any of
\* its calls, the wrapper raises nothing and the caller gets the command's
\* result, a mapping with '__metadata__' included.
C3_RecordingFailureHarmless ==
    \A f \in Frames :
        (Finished(f) /\ Returned(f)) =>
            /\ f.raised = NoneV
            /\ Surfaced(f) = f.cmd_outcome

\* the command returned a mapping with '__metadata__', store_step_record
\* raised, and the mapping is what the caller gets
C3_Witness ==
    /\ stack # <<>> /\ Finished(Top) /\ Returned(Top)
    /\ Top.cmd_outcome.val.tag = "mapping"
    /\ Top.failed = "store_step_record" /\ Top.store_calls = 1
    /\ Top.warnings > 0
    /\ Surfaced(Top).val = Top.cmd_outcome.val

\* C4: when is_metadata_tracking_enabled() is false, store_step_record is
\* not called and nothing is added to the store, whether the command
\* returns or raises and whether enclosing_steps is empty or not.
C4_DisabledNeverStored ==
    ~ tracking =>
        /\ store = <<>>
        /\ \A f \in Frames : f.store_calls = 0 /\ f.hashed = {}

\* tracking disabled: an outermost step whose command raised has asked for
\* the decision and is done
C4_Witness ==
    /\ ~ tracking
    /\ stack # <<>> /\ Finished(Top) /\ Top.asked /\ ~ RecordingFailed(Top)
    /\ ~ Nested(Top) /\ Raised(Top)

\* the record this step has just had written, last in the store
OwnRecord(f) == store[Len(store)].step
Persisted(f) ==
    /\ Len(store) = f.entry.store_len + 1
    /\ OwnRecord(f).step_id = f.step_id

C6_Original ==
    \A f \in Frames :
        (Finished(f) /\ tracking /\ ~ Nested(f) /\ ~ RecordingFailed(f)) => Persisted(f)

\* C6, amended: with tracking enabled, enclosing_steps empty and no call of
\* the recording raising, a record is persisted when the command returns or
\* raises an Exception: the exception is captured, the record carrying its
\* text is persisted while nothing is raised yet, and the exception is
\* raised afterwards. When the command ends with KeyboardInterrupt or
\* SystemExit, that is raised at once and nothing is recorded.
C6_RecordedUnlessInterrupted ==
    \A f \in Frames :
        (tracking /\ ~ Nested(f) /\ ~ RecordingFailed(f)) =>
            /\ (f.pc = "unpacked") =>
                  /\ Persisted(f)
                  /\ f.raised = NoneV
                  /\ Raised(f) =>
                        OwnRecord(f).run_info.exception =
                            [tag |-> "traceback", of |-> f.cmd_outcome.val]
            /\ (Finished(f) /\ f.cmd_outcome.val \notin BaseExceptions) =>
                  /\ Persisted(f)
                  /\ Raised(f) => f.raised = f.cmd_outcome.val
            /\ (Finished(f) /\ f.cmd_outcome.val \in BaseExceptions) =>
                  /\ Len(store) = f.entry.store_len
                  /\ ~ f.asked /\ f.store_calls = 0
                  /\ f.raised = f.cmd_outcome.val

\* the command raised ValueError: the record with its text is in the store
\* and nothing is raised yet
C6_Witness ==
    /\ tracking /\ stack # <<>> /\ ~ Nested(Top) /\ Top.pc = "unpacked"
    /\ Raised(Top) /\ ~ RecordingFailed(Top)
    /\ Persisted(Top)
    /\ OwnRecord(Top).run_info.exception.tag = "traceback"
    /\ Top.raised = NoneV

\* the FileInfo values within a written value, at any depth
RECURSIVE FileInfosIn(_)
FileInfosIn(val) ==
    IF val.tag = "FileInfo" THEN {val}
    ELSE IF IsSeqV(val)
         THEN UNION {FileInfosIn(val.items[i]) : i \in 1..Len(val.items)}
         ELSE {}

FileInfosOf(args) == UNION {FileInfosIn(args[a]) : a \in DOMAIN args}

\* C7: out_files_exist is passed as true to gather_file_info exactly when no
\* exception of the command was captured; in the record of a command that
\* raised every OUT file is absent and unhashed, on disk or not, while every
\* IN file, and every OUT file of a command that returned, is looked up and
\* hashed if it is there.
C7_OutFilesOnlyOnSuccess ==
    \A f \in Frames :
        (f.pc = "unpacked" /\ f.store_calls = 1) =>
            /\ \A h \in f.hashed : h.out_files_exist <=> (f.cmd_exception = NoneV)
            /\ ~ RecordingFailed(f) =>
                  /\ Persisted(f)
                  /\ Cardinality(FileInfosOf(OwnRecord(f).args)) =
                        Cardinality(FileArgsOf(f.args_dict))
                  /\ \A fi \in FileInfosOf(OwnRecord(f).args) :
                        IF fi.mode = "OUT" /\ Raised(f)
                        THEN ~ fi.exists /\ fi.hash = 0
                        ELSE /\ fi.exists <=> disk[fi.fname] # 0
                             /\ fi.hash = IF fi.exists THEN Digest(disk[fi.fname]) ELSE 0

\* the command wrote b.bam and raised: the record has the OUT file b.bam
\* absent and the IN file a.bam hashed
C7_Witness ==
    /\ stack # <<>> /\ Top.pc = "unpacked" /\ Raised(Top) /\ ~ RecordingFailed(Top)
    /\ Top.store_calls = 1 /\ Persisted(Top)
    /\ disk["b.bam"] # 0
    /\ \E fi \in FileInfosOf(OwnRecord(Top).args) :
            fi.mode = "OUT" /\ fi.fname = "b.bam" /\ ~ fi.exists
    /\ \E fi \in FileInfosOf(OwnRecord(Top).args) :
            fi.mode = "IN" /\ fi.exists /\ fi.hash = Digest(disk[fi.fname])

\* C8: when the wrapper is done, however it ended, the steps-running channel
\* holds the value it had when the wrapper was entered; with no step in
\* flight it holds the value the process started with.
C8_ChannelRestored ==
    /\ \A f \in Frames : Finished(f) => steps_running = f.entry.steps_running
    /\ stack = <<>> => steps_running = init_steps

\* a nested step whose command ended with KeyboardInterrupt is done and the
\* channel holds its ancestors again
C8_Witness ==
    /\ Len(stack) = 2 /\ Finished(Top)
    /\ Top.raised \in BaseExceptions
    /\ Top.entry.steps_running # <<>>
    /\ steps_running = Top.entry.steps_running

\* the step ids of the first n steps of the stack, outermost first
StepIds(n) == [i \in 1..n |-> stack[i].step_id]
InFlight == IF stack # <<>> /\ Finished(Top) THEN Len(stack) - 1 ELSE Len(stack)

\* C9: the channel is the sequence the process started with followed by the
\* ids of the steps in flight, outermost first; the enclosing_steps a step
\* decides with is the channel as read on entry, its ancestors without
\* itself; while its command runs the channel is that followed by its id.
C9_ChannelIsStack ==
    /\ steps_running = init_steps \o StepIds(InFlight)
    /\ \A i \in 1..Len(stack) :
          /\ stack[i].enclosing_steps = stack[i].entry.steps_running
          /\ stack[i].enclosing_steps = init_steps \o StepIds(i - 1)
    /\ (stack # <<>> /\ Top.pc = "executing") =>
          steps_running = Append(Top.enclosing_steps, Top.step_id)

\* three steps nested in a process started within a step: all four ids are
\* on the channel while the innermost command runs
C9_Witness ==
    /\ Len(stack) = 3 /\ Top.pc = "executing"
    /\ init_steps # <<>>
    /\ Len(steps_running) = 4
    /\ Len(Top.enclosing_steps) = 3

\* C10: what the caller observes of a finished call, the result or exception
\* and the two channels, is the outcome of the command and the channels as
\* they were on entry, whether tracking is enabled or not and whether the
\* recording succeeds or fails; so two runs that differ only in those
\* observe the same.
C10_OutcomeIndependentOfTracking ==
    \A f \in Frames :
        Finished(f) =>
            /\ Surfaced(f) = f.cmd_outcome
            /\ steps_running = f.entry.steps_running
            /\ run_id_env = f.entry.run_id_env

\* tracking enabled, the command raised and the recording failed as well
C10_Witness ==
    /\ tracking /\ stack # <<>> /\ Finished(Top) /\ ~ Nested(Top)
    /\ Raised(Top) /\ Top.failed = "gather_version_info"
    /\ run_id_env # <<>>
    /\ Surfaced(Top) = Top.cmd_outcome

\* C11: the run-id channel is never changed while a step is in flight; a
\* step entered with the channel set takes the channel's value as its run_id
\* and a step entered with it unset takes a run id created at its begin time;
\* so with the channel set every record of the store carries the channel's
\* value.
C11_RunIdFromChannel ==
    /\ \A f \in Frames :
        /\ run_id_env = f.entry.run_id_env
        /\ f.entry.run_id_env # <<>> => f.run_id = f.entry.run_id_env
        /\ f.entry.run_id_env = <<>> =>
              LET u == f.run_id[Len(f.run_id)].n
              IN  /\ u \in 0..uuids
                  /\ f.run_id = create_run_id(f.beg_time, user_len, cwd_len, u)
        /\ Len(store) > f.entry.store_len =>
              store[f.entry.store_len + 1].step.run_id = f.run_id
    /\ run_id_env # <<>> => \A i \in 1..Len(store) : store[i].step.run_id = run_id_env

\* two steps of one workflow recorded, both under the run id of the channel
C11_Witness ==
    /\ run_id_env # <<>>
    /\ Len(store) = 2
    /\ store[1].step.run_id = run_id_env /\ store[2].step.run_id = run_id_env
    /\ store[1].step.step_id # store[2].step.step_id

\* C12: where the file named by VIRAL_NGS_METADATA_SAVE_STEP_ID_TO cannot be
\* written the failure is counted as a warning and nothing is saved; the
\* command is invoked once, with the normalized arguments; the caller gets
\* the command's outcome; and store_step_record is called exactly when
\* tracking is enabled and the step is not nested, as with a file that can be
\* written.
C12_SaveFailureOnlyWarns ==
    \A f \in Frames :
        save_to = "unwritable" =>
            /\ f.warnings >= 1 /\ f.saved_step_id = <<>>
            /\ f.invoked = 1
            /\ f.args = replace_file_args(f.given) /\ FileArgsOf(f.args) = {}
            /\ f.raised = NoneV \/ f.raised = f.cmd_outcome.val
            /\ Finished(f) => Surfaced(f) = f.cmd_outcome
            /\ (f.asked /\ f.failed \notin {"is_metadata_tracking_enabled",
                                            "gather_user_metadata",
                                            "gather_version_info", "gather_run_env"})
                  => (f.store_calls = 1 <=> (tracking /\ ~ Nested(f)))

\* the write failed, the command returned and its record was stored
C12_Witness ==
    /\ save_to = "unwritable" /\ stack # <<>> /\ Finished(Top)
    /\ Top.warnings = 1 /\ Top.invoked = 1 /\ Returned(Top)
    /\ Persisted(Top)
    /\ FileArgsOf(Top.given) # {}

\* C13: whatever the lengths of the user name and of the base name of the
\* working directory, the run id created has at most 210 characters.
C13_RunIdAtMost210 ==
    run_id_env # <<>> => StrLen(run_id_env) <= RunIdMaxLen

\* a base name longer than the limit by itself: the run id is cut to 210
C13_Witness ==
    /\ cwd_len > RunIdMaxLen
    /\ run_id_env # <<>>
    /\ StrLen(run_id_env) = RunIdMaxLen
    /\ \A i \in 1..Len(run_id_env) : run_id_env[i].s # "uuid"

\* C14 as stated: once the outcome has been captured, that is when the
\* recording decision is about to be taken and after it, the channel is back
\* to the ancestors' sequence and does not hold this step's id.
C14_Original ==
    \A f \in Frames :
        f.pc \in {"body", "unpacked"} => steps_running = f.enclosing_steps

\* C14: the steps of the wrapper come in the stated order, identifiers and
\* normalized arguments before the command, the outcome before the decision,
\* the decision before any gathering or store call; but the decision and the
\* recording happen inside the scope of line 239, with this step's id still
\* last on the channel, and the ancestors' sequence is back only when the
\* wrapper is done.
C14_RecordedInsideScope ==
    \A f \in Frames :
        /\ f.pc = "executing" =>
              /\ f.step_id # <<>> /\ f.run_id # <<>>
              /\ f.args = replace_file_args(f.given)
              /\ f.cmd_outcome = NoneV /\ ~ f.asked
        /\ f.asked => f.cmd_outcome # NoneV /\ f.pc \in {"unpacked", "done"}
        /\ (f.gathered # {} \/ f.store_calls > 0 \/ f.hashed # {}) => f.asked
        /\ f.pc \in {"body", "unpacked", "exiting"} =>
              steps_running = Append(f.enclosing_steps, f.step_id)
        /\ Len(store) > f.entry.store_len => f.pc \in {"unpacked", "done"}
        /\ Finished(f) => steps_running = f.enclosing_steps

\* the record is in the store and the step's id is still on the channel
C14_Witness ==
    /\ stack # <<>> /\ Top.pc = "unpacked" /\ Persisted(Top)
    /\ steps_running = Append(Top.enclosing_steps, Top.step_id)
    /\ steps_running # Top.entry.steps_running

\* C15: when the command is invoked no attribute of args holds a FileArg,
\* directly or inside lists and tuples at any depth: position by position
\* each FileArg given has become its raw value and every other value is as
\* given; replace_file_args applied again gives the same args.
C15_NoFileArgReachable ==
    (stack # <<>> /\ Top.pc = "executing") =>
        /\ Top.invoked = 1
        /\ FileArgsOf(Top.args) = {}
        /\ DOMAIN Top.args = DOMAIN Top.given
        /\ \A a \in DOMAIN Top.args :
              LET x == Flat(Top.given[a])
                  y == Flat(Top.args[a])
              IN  /\ Len(y) = Len(x)
                  /\ \A i \in 1..Len(x) :
                        y[i] = IF IsFileArg(x[i]) THEN Plain(x[i].val) ELSE x[i]
        /\ replace_file_args(Top.args) = Top.args

\* a command running whose caller gave a FileArg inside a tuple inside a list
C15_Witness ==
    /\ stack # <<>> /\ Top.pc = "executing" /\ Top.invoked = 1
    /\ \E a \in DOMAIN Top.given :
          /\ Top.given[a].tag = "list"
          /\ \E i \in 1..Len(Top.given[a].items) :
                /\ Top.given[a].items[i].tag = "tuple"
                /\ FileArgsIn(Top.given[a].items[i]) # {}
    /\ FileArgsOf(Top.args) = {}

\* C16: the argument map kept for the record is the one the caller gave,
\* whatever was done to the namespace; the args of a persisted record have
\* the caller's arguments without 'metadata' and 'func_main', and position
\* by position a file info of the same file and mode where the caller gave a
\* FileArg and the caller's value anywhere else.
C16_RecordKeepsFileArgs ==
    \A f \in Frames :
        /\ f.args_dict = f.given
        /\ (f.pc = "unpacked" /\ Persisted(f)) =>
              LET rec == OwnRecord(f).args
              IN  /\ DOMAIN rec = (DOMAIN f.given) \ {"metadata", "func_main"}
                  /\ \A a \in DOMAIN rec :
                        LET x == Flat(f.given[a])
                            y == Flat(rec[a])
                        IN  /\ Len(y) = Len(x)
                            /\ \A i \in 1..Len(x) :
                                  IF IsFileArg(x[i])
                                  THEN /\ y[i].tag = "FileInfo"
                                       /\ y[i].fname = x[i].val
                                       /\ y[i].mode = x[i].mode
                                  ELSE y[i] = x[i]

\* two records: the first of a command given 'metadata' and 'func_main', the
\* second of a command given FileArgs inside containers
C16_Witness ==
    /\ stack # <<>> /\ Top.pc = "unpacked" /\ Persisted(Top)
    /\ Len(store) = 2
    /\ store[1].step.cmd_name = "align"
    /\ "func_main" \notin DOMAIN store[1].step.args
    /\ Cardinality(FileInfosOf(store[1].step.args)) = 2
    /\ \E a \in DOMAIN Top.given : Top.given[a].tag = "list" /\ FileArgsIn(Top.given[a]) # {}
    /\ FileArgsOf(Top.args) = {}
    /\ Cardinality(FileInfosOf(OwnRecord(Top).args)) = 2

\* C17: while the command has not ended and until the recording decision
\* nothing is hashed; files are hashed only in the one call of
\* store_step_record, after the outcome was captured; only files of FileArgs
\* the caller gave are hashed, and there are no more gather_file_info calls
\* than there are FileArg occurrences in the arguments.
C17_HashingOnlyInStore ==
    \A f \in Frames :
        /\ f.pc \in {"start", "executing", "body"} => f.hashed = {} /\ f.hash_count = 0
        /\ (f.hashed # {} \/ f.hash_count > 0) =>
              /\ f.cmd_outcome # NoneV /\ f.outcome # NoneV
              /\ f.asked /\ f.store_calls = 1
        /\ f.store_calls <= 1
        /\ f.hash_count > 0 => f.hash_count <= NumFileArgs(f.given)
        /\ \A h \in f.hashed :
              \E x \in FileArgsOf(f.given) : x.val = h.fname /\ x.mode = h.mode

\* the record of a command with two file arguments stored: two calls
C17_Witness ==
    /\ stack # <<>> /\ Top.pc = "unpacked" /\ Persisted(Top)
    /\ NumFileArgs(Top.given) = 2
    /\ Top.hash_count = 2
    /\ Cardinality(Top.hashed) = 2

\* C18 as stated: a nested step whose recording body ran has had its version
\* and environment information gathered and its file arguments hashed, with
\* nothing stored.
C18_Original ==
    \A f \in Frames :
        (Nested(f) /\ f.asked /\ ~ RecordingFailed(f)) =>
            /\ f.store_calls = 0
            /\ {"gather_version_info", "gather_run_env"} \subseteq f.gathered
            /\ FileArgsOf(f.given) # {} => f.hashed # {}

\* C18: for a nested step nothing is stored and none of the bookkeeping is
\* executed either: no user metadata, version or environment information is
\* gathered and no file is hashed; a step that is not nested, with tracking
\* enabled and no recording call failing, has all of it done.
C18_NestedSkipsBookkeeping ==
    \A f \in Frames :
        /\ Nested(f) =>
              /\ f.gathered = {} /\ f.hashed = {} /\ f.hash_count = 0
              /\ f.store_calls = 0
        /\ (~ Nested(f) /\ tracking /\ f.asked /\ ~ RecordingFailed(f)) =>
              /\ f.gathered = {"gather_user_metadata", "gather_version_info",
                               "gather_run_env", "gather_run_info"}
              /\ f.hash_count = NumFileArgs(f.given)
              /\ f.store_calls = 1

\* a nested step with file arguments, tracking enabled, its command returned
\* and the recording decision taken: nothing gathered, nothing hashed
C18_Witness ==
    /\ tracking /\ stack # <<>> /\ Finished(Top) /\ Nested(Top)
    /\ Returned(Top) /\ Top.asked /\ ~ RecordingFailed(Top)
    /\ FileArgsOf(Top.given) # {}
    /\ Top.gathered = {} /\ Top.hashed = {}

\* C19: each call of create_run_id drawing a new uuid, the step ids of the
\* invocations in flight and of the records stored are pairwise different,
\* the channel holds no id twice, and no step's id is among its own
\* enclosing_steps.
C19_StepIdsUnique ==
    /\ \A i, j \in 1..Len(stack) : i # j => stack[i].step_id # stack[j].step_id
    /\ \A i, j \in 1..Len(store) : i # j => store[i].step.step_id # store[j].step.step_id
    /\ \A i, j \in 1..Len(steps_running) : i # j => steps_running[i] # steps_running[j]
    /\ \A f \in Frames :
          \A i \in 1..Len(f.enclosing_steps) : f.enclosing_steps[i] # f.step_id

MetadataVars == {e \in Environ : e.prefix = "VIRAL_NGS_METADATA_VALUE_"}
MetadataPairs(f) ==
    IF "metadata" \in DOMAIN f.given /\ f.given["metadata"].tag = "list"
    THEN f.given["metadata"].items ELSE <<>>

\* C20: in a persisted record metadata_from_cmd_line has the names of the
\* prefixed environment variables without the prefix and the keys of the
\* --metadata pairs; a key given on the flag has the value of its last pair,
\* any other key the value of its environment variable;
\* metadata_from_cmd_return is the '__metadata__' entry of a result that is a
\* mapping and is empty for any other result.
C20_UserMetadataMerge ==
    \A f \in Frames :
        (f.pc = "unpacked" /\ Persisted(f)) =>
            LET md == OwnRecord(f).metadata_from_cmd_line
                pairs == MetadataPairs(f)
                key(i) == pairs[i].items[1].val
                res == f.cmd_outcome.val
            IN  /\ DOMAIN md = {e.rest : e \in MetadataVars} \cup {key(i) : i \in 1..Len(pairs)}
                /\ \A k \in DOMAIN md :
                      IF \E i \in 1..Len(pairs) : key(i) = k
                      THEN \E i \in 1..Len(pairs) :
                              /\ key(i) = k
                              /\ \A j \in (i + 1)..Len(pairs) : key(j) # k
                              /\ md[k] = pairs[i].items[2].val
                      ELSE \E e \in MetadataVars : e.rest = k /\ md[k] = e.value
                /\ OwnRecord(f).metadata_from_cmd_return =
                      IF Returned(f) /\ res.tag = "mapping"
                      THEN Get(res.items, "__metadata__", EmptyDict)
                      ELSE EmptyDict

\* the record of a command given --metadata project twice, with project and
\* sample in the environment, that returned a mapping with '__metadata__'
C20_Witness ==
    /\ stack # <<>> /\ Top.pc = "unpacked" /\ Persisted(Top)
    /\ Len(MetadataPairs(Top)) = 2
    /\ OwnRecord(Top).metadata_from_cmd_line["project"] = "flag2"
    /\ OwnRecord(Top).metadata_from_cmd_line["sample"] = "env2"
    /\ Returned(Top) /\ Top.cmd_outcome.val.tag = "mapping"
    /\ OwnRecord(Top).metadata_from_cmd_return # EmptyDict

====
